---- MODULE Spec2Model ----
(***************************************************************************)
(* Hybrid recommendation engine of ml_service: the interaction matrix, the *)
(* FeedbackManager, the holdout evaluator, the FastAPI service built by    *)
(* create_app and the Flask blueprint reco_bp.                             *)
(*                                                                         *)
(* Interaction values and deltas are floats with at most one decimal in    *)
(* the program; they are modelled as integers counting tenths (1.0 is 10,  *)
(* 0.1 is 1, the clip bounds -5.0 and 5.0 are -50 and 50).                 *)
(***************************************************************************)
EXTENDS Integers, Sequences, FiniteSets, TLC

Range(s) == {s[k] : k \in 1..Len(s)}

Max(a, b) == IF a >= b THEN a ELSE b

Min(a, b) == IF a <= b THEN a ELSE b

\* Python's None and a present value, for optional arguments and fields.
None == <<>>
Some(x) == <<x>>

(***************************************************************************)
(* Bounds of the model.                                                    *)
(***************************************************************************)
\* Number of FeedbackManager.record calls in a behaviour of SpecRecord.
MaxRecords == 3

(***************************************************************************)
(* Program constants (tenths).                                             *)
(***************************************************************************)
LikeDelta == 10
DislikeDelta == -10
SkipDelta == 1
ClipHi == 50
ClipLo == -50

\* items.csv of the model: the catalog, in file order.
Catalog == <<"A", "B", "C">>

VARIABLES
    interactions_df,  \* the DataFrame: [index, columns, val]
    log_lines,        \* number of lines appended to reco_feedback.jsonl
    last,             \* the last completed call: what it was given and did
    nops,             \* number of calls made so far
    ev,               \* the running evaluate_holdout_at_k call: its locals
    model,            \* the shared recommender: alpha and what it was trained on
    ver,              \* number of writes FeedbackManager.record made to the matrix
    acked,            \* highest write number a feedback has answered success for
    threads,          \* the request handlers of the service, one per thread
    _ENGINE,          \* the blueprint's engine singleton: None until first used
    http,             \* the blueprint's last request and its response
    datasets,         \* items.csv and interactions.csv as they are on disk
    items_df,         \* the items table load_reco_datasets returned, None before
    _LAST_EVAL,       \* the clock value kept with the cached metrics, None before
    _LAST_EVAL_RESULT,\* the cached metrics, None before
    now,              \* the clock time.time() reads, in steps of 30 seconds
    engines           \* the RecommendationEngine instances constructed so far

boot == <<datasets, items_df, _LAST_EVAL, _LAST_EVAL_RESULT, now, engines>>
vars == <<interactions_df, log_lines, last, nops, ev, model, ver, acked, threads,
          _ENGINE, http, boot>>
svc == <<model, ver, acked, threads, _ENGINE, http, boot>>
api == <<_ENGINE, http, boot>>

(***************************************************************************)
(* pandas DataFrame: index (row labels, in order), columns (column labels, *)
(* in order) and one value per (row, column) cell.                         *)
(***************************************************************************)
Frame(index, columns, values) ==
    [index |-> index, columns |-> columns,
     val |-> [c \in Range(index) \X Range(columns) |-> values[c]]]

HasRow(df, user_id) == user_id \in Range(df.index)
HasCol(df, item_id) == item_id \in Range(df.columns)
At(df, user_id, item_id) == df.val[<<user_id, item_id>>]

\* A new row that starts as a copy of the first row instead of zeros.
AddRowCopyingFirst(df, user_id) ==
    LET index == Append(df.index, user_id)
    IN  Frame(index, df.columns,
              [c \in Range(index) \X Range(df.columns) |->
                  IF c[1] = user_id THEN df.val[<<df.index[1], c[2]>>] ELSE df.val[c]])

\* interactions_df.loc[user_id] = 0.0 for a label that is not in the index
AddRow(df, user_id) ==
    LET index == Append(df.index, user_id)
    IN  Frame(index, df.columns,
              [c \in Range(index) \X Range(df.columns) |->
                  IF c[1] = user_id THEN 0 ELSE df.val[c]])

\* interactions_df[item_id] = 0.0 for a label that is not a column
AddCol(df, item_id) ==
    LET columns == Append(df.columns, item_id)
    IN  Frame(df.index, columns,
              [c \in Range(df.index) \X Range(columns) |->
                  IF c[2] = item_id THEN 0 ELSE df.val[c]])

\* interactions_df.at[user_id, item_id] = v
SetAt(df, user_id, item_id, v) ==
    [df EXCEPT !.val[<<user_id, item_id>>] = v]

(***************************************************************************)
(* load_reco_datasets (preprocessing.py lines 6-28).  A Python str is a    *)
(* sequence of one-character strings; a cell pandas read as NaN is None.   *)
(***************************************************************************)
RECURSIVE LStrip(_)
LStrip(s) == IF s # <<>> /\ Head(s) = " " THEN LStrip(Tail(s)) ELSE s

RECURSIVE RStrip(_)
RStrip(s) == IF s # <<>> /\ s[Len(s)] = " " THEN RStrip(SubSeq(s, 1, Len(s) - 1)) ELSE s

\* t.strip()
Strip(s) == RStrip(LStrip(s))

\* str(s).split(',')
RECURSIVE Split(_)
Split(s) ==
    IF \E i \in 1..Len(s) : s[i] = ","
    THEN LET i == CHOOSE i \in 1..Len(s) : s[i] = "," /\ \A j \in 1..(i - 1) : s[j] # ","
         IN  <<SubSeq(s, 1, i - 1)>> \o Split(SubSeq(s, i + 1, Len(s)))
    ELSE <<s>>

\* [t.strip() for t in parts if t.strip()]
RECURSIVE StripNonEmpty(_)
StripNonEmpty(parts) ==
    IF parts = <<>> THEN <<>>
    ELSE LET t == Strip(Head(parts))
         IN  (IF t # <<>> THEN <<t>> ELSE <<>>) \o StripNonEmpty(Tail(parts))

\* items["tags"].fillna("").apply(...) for one cell (line 16)
ParseTags(cell) == StripNonEmpty(Split(IF cell = None THEN <<>> ELSE cell[1]))

\* if "category" not in items.columns: items["category"] = "Item" (lines 19-20)
LoadCategory(columns, cell) ==
    IF "category" \notin columns THEN Some("Item") ELSE cell

\* lines 15-20 on the table read_csv returned
LoadItems(table) ==
    [columns |-> table.columns \cup {"tags", "category"},
     rows |-> [n \in 1..Len(table.rows) |->
                 [item_id |-> table.rows[n].item_id,
                  category |-> LoadCategory(table.columns, table.rows[n].category),
                  tags |-> IF "tags" \in table.columns
                              THEN ParseTags(table.rows[n].tags) ELSE <<>>]]]

ItemIds(table) == [n \in 1..Len(table.rows) |-> table.rows[n].item_id]

\* interactions.reindex(columns=..., fill_value=0) (line 25)
Reindex(df, columns) ==
    Frame(df.index, columns,
          [c \in Range(df.index) \X Range(columns) |->
              IF HasCol(df, c[2]) THEN df.val[c] ELSE 0])

\* A file pd.read_csv can parse, and one it raises on.
CsvFile(table) == [status |-> "ok", table |-> table]
BadFile(status) == [status |-> status, table |-> None]

LoadRaised(error) == [raised |-> TRUE, error |-> error, items |-> None, interactions |-> None]

\* A loader that accepts an items table without item_id and keeps the frame as read.
load_reco_datasets_no_id_check(ds) ==
    IF ds.items.status # "ok" THEN LoadRaised("items.csv")
    ELSE IF ds.interactions.status # "ok" THEN LoadRaised("interactions.csv")
    ELSE [raised |-> FALSE, error |-> "", items |-> Some(LoadItems(ds.items.table)),
          interactions |-> Some(ds.interactions.table)]

load_reco_datasets(ds) ==
    IF ds.items.status # "ok" THEN LoadRaised("items.csv")
    ELSE IF ds.interactions.status # "ok" THEN LoadRaised("interactions.csv")
    ELSE IF "item_id" \notin ds.items.table.columns
         THEN LoadRaised("items.csv must include item_id column")
    ELSE LET items == LoadItems(ds.items.table)
         IN  [raised |-> FALSE, error |-> "", items |-> Some(items),
              interactions |-> Some(Reindex(ds.interactions.table, ItemIds(items)))]

\* The datasets directory as shipped: three items, a table of two users.
ItemRow(item_id, category, tags) == [item_id |-> item_id, category |-> category, tags |-> tags]

ShippedItems ==
    [columns |-> {"item_id", "title", "category", "tags"},
     rows |-> <<ItemRow("A", Some("Audio"), Some(<<"a">>)),
                ItemRow("B", Some("Video"), Some(<<"b">>)),
                ItemRow("C", Some("Audio"), Some(<<"a", ",", "b">>))>>]

ShippedInteractions ==
    Frame(<<"u1", "u2">>, Catalog,
          [c \in {"u1", "u2"} \X Range(Catalog) |-> IF c = <<"u1", "A">> THEN 10 ELSE 0])

ShippedDatasets == [items |-> CsvFile(ShippedItems), interactions |-> CsvFile(ShippedInteractions)]

\* Nothing of the blueprint's caches is set and the shipped datasets are on disk.
BootIdle ==
    /\ datasets = ShippedDatasets
    /\ items_df = Some(LoadItems(ShippedItems))
    /\ _LAST_EVAL = None
    /\ _LAST_EVAL_RESULT = None
    /\ now = 0
    /\ engines = 0

(***************************************************************************)
(* FeedbackManager.record: the matrix part (feedback.py lines 20-34).      *)
(***************************************************************************)
\* A table whose 'skip' entry carries the 'like' delta.
DefaultWeightSkipAsLike(action) ==
    CASE action = "like" -> LikeDelta
      [] action = "dislike" -> DislikeDelta
      [] OTHER -> LikeDelta

\* {"like": 1.0, "dislike": -1.0, "skip": 0.1}.get(action, 0.1)
DefaultWeight(action) ==
    CASE action = "like" -> LikeDelta
      [] action = "dislike" -> DislikeDelta
      [] OTHER -> SkipDelta

Weight(action, weight) ==
    IF weight = None THEN DefaultWeight(action) ELSE weight[1]

\* A clip that bounds the value from below only.
ClipNoUpper(v) == IF v < ClipLo THEN ClipLo ELSE v
Clip(v) == IF v > ClipHi THEN ClipHi ELSE IF v < ClipLo THEN ClipLo ELSE v

EnsureRowCol(df, user_id, item_id) ==
    LET df1 == IF HasRow(df, user_id) THEN df ELSE AddRow(df, user_id)
    IN  IF HasCol(df1, item_id) THEN df1 ELSE AddCol(df1, item_id)

\* An update that assigns the new value to the whole column (interactions_df[item_id] = new_val).
RecordMatrixWholeColumn(df, user_id, item_id, action, weight) ==
    LET df2 == EnsureRowCol(df, user_id, item_id)
        new_val == Clip(At(df2, user_id, item_id) + Weight(action, weight))
    IN  [df2 EXCEPT !.val = [c \in DOMAIN df2.val |->
                                IF c[2] = item_id THEN new_val ELSE df2.val[c]]]

RecordMatrix(df, user_id, item_id, action, weight) ==
    LET df2 == EnsureRowCol(df, user_id, item_id)
        new_val == Clip(At(df2, user_id, item_id) + Weight(action, weight))
    IN  SetAt(df2, user_id, item_id, new_val)

\* The value record starts from: the stored one, or 0 for a new cell.
OldValue(df, user_id, item_id) ==
    IF HasRow(df, user_id) /\ HasCol(df, item_id) THEN At(df, user_id, item_id) ELSE 0

NoCall ==
    [op |-> "none", user |-> "", item |-> "", action |-> "", weight |-> None,
     old |-> 0, status |-> "none", during |-> FALSE]

\* No evaluation has been started.
NoEval ==
    [pc |-> "idle", k |-> 0, users |-> <<>>, pos |-> 0, test_item |-> "",
     original |-> 0, before |-> None, evaluated |-> <<>>, result |-> None]

(***************************************************************************)
(* The recommender object shared by all requests (bundle["model"], and the *)
(* engine of the blueprint).  Of its state the model keeps alpha and, for  *)
(* load_data and train, which write of the matrix the loaded data and the  *)
(* trained scorers include: write number ver is included in every later    *)
(* load.                                                                   *)
(***************************************************************************)
DefaultAlpha == 5

\* build_model: HybridRecommender(alpha), load_data, train
BuiltModel == [alpha |-> DefaultAlpha, loaded |-> 0, trained |-> 0]

\* model.load_data(items_df, interactions_df)
LoadData(m, matrix_ver) == [m EXCEPT !.loaded = matrix_ver]

\* model.train()
Train(m) == [m EXCEPT !.trained = m.loaded]

Threads == {1, 2}

NoRequest ==
    [route |-> "", user |-> None, item |-> None, rating |-> <<"absent", 0>>,
     top_n |-> 0, log_ok |-> TRUE, cold |-> FALSE, status |-> 0, n_items |-> 0,
     called |-> FALSE]

IdleThread ==
    [pc |-> "idle", op |-> "", user |-> "", item |-> "", action |-> "",
     log_ok |-> TRUE, n |-> 0, must_see |-> 0, trained_seen |-> 0,
     overlap |-> FALSE, alpha |-> 0, alpha_used |-> 0, top_n |-> 0,
     n_items |-> 0, resp |-> ""]

\* Cold start: a user the interaction store has not seen gets an all-zero row.
ColdStart(df, user_id) == IF HasRow(df, user_id) THEN df ELSE AddRow(df, user_id)

\* top_n is clamped to >= 1 and <= catalog size: the length of the answer.
ClampTopN(top_n, n) == IF top_n < 1 THEN 1 ELSE IF top_n > n THEN n ELSE top_n

RecommendCount(top_n) == ClampTopN(top_n, Len(Catalog))

\* float(max(0.0, min(1.0, alpha))), in tenths
ClampAlpha(alpha) == IF alpha > 10 THEN 10 ELSE IF alpha < 0 THEN 0 ELSE alpha

(***************************************************************************)
(* The scorers and the fusion layer (sections 4.1 to 4.3 of the design).   *)
(* Scores are fixed-point integers: a similarity is in 1/Scale, rounded    *)
(* towards zero; matrix values stay in tenths.                             *)
(***************************************************************************)
Scale == 100

\* The context boost, a factor of BoostNum / BoostDen = 1.2.
BoostNum == 12
BoostDen == 10

\* The popularity vector weighs every item alike.
PopularityWeight == 10

\* The alpha of a cold start: content only.
ColdAlpha == 10

\* The tags and the category of the catalog's items.
ItemTags(item_id) ==
    CASE item_id = "A" -> {"calm"}
      [] item_id = "B" -> {"energetic"}
      [] item_id = "C" -> {"calm", "happy"}
      [] OTHER -> {}

ItemCategory(item_id) == IF item_id = "C" THEN "Video" ELSE "Audio"

\* The axes of the item's one-hot / bag-of-tags vector that hold 1.
ItemFeatures(item_id) ==
    {<<"category", ItemCategory(item_id)>>} \cup {<<"tag", t>> : t \in ItemTags(item_id)}

\* The tags a mood hint stands for.
MoodTags(mood) ==
    CASE mood = "happy" -> {"happy"}
      [] mood = "stressed" -> {"calm"}
      [] mood = "tired" -> {"energetic"}
      [] OTHER -> {}

RECURSIVE SeqSum(_)
SeqSum(s) == IF s = <<>> THEN 0 ELSE Head(s) + SeqSum(Tail(s))

\* The sequence s[1..n] with every element computed once.
RECURSIVE Computed(_, _)
Computed(s, n) == IF n = 0 THEN <<>> ELSE Append(Computed(s, n - 1), s[n])

\* The score map over the items, with every score computed once.
Table(scores, items) ==
    LET vals == Computed([k \in 1..Len(items) |-> scores[items[k]]], Len(items))
    IN  [i \in Range(items) |->
            vals[CHOOSE k \in 1..Len(items) : items[k] = i]]

\* The largest r with lo <= r < hi and r * r <= n, given lo * lo <= n < hi * hi.
RECURSIVE ISqrtIn(_, _, _)
ISqrtIn(n, lo, hi) ==
    IF hi - lo <= 1 THEN lo
    ELSE LET mid == (lo + hi) \div 2
         IN  IF mid * mid <= n THEN ISqrtIn(n, mid, hi) ELSE ISqrtIn(n, lo, mid)

ISqrt(n) == ISqrtIn(n, 0, Min(n, 46339) + 1)

\* dot / (|a| * |b|) in 1/Scale, from the dot product and the squared norms;
\* 0 when one of the vectors is the zero vector.
Cosine(dot, asq, bsq) ==
    IF asq = 0 \/ bsq = 0 THEN 0
    ELSE LET r == ISqrt(asq * bsq)
         IN  IF dot >= 0 THEN (dot * Scale) \div r ELSE -(((-dot) * Scale) \div r)

\* Section 4.1: the weight of each catalog item in the user's profile: its
\* interaction value when positive; the popularity vector when there is none.
ProfileWeights(df, user_id, items) ==
    LET w == Computed([k \in 1..Len(items) |-> Max(OldValue(df, user_id, items[k]), 0)],
                      Len(items))
    IN  IF \A k \in 1..Len(items) : w[k] = 0
        THEN [k \in 1..Len(items) |-> PopularityWeight]
        ELSE w

\* Section 4.1: cosine of the profile vector and each item's feature vector.
score_content(df, user_id, items) ==
    LET w == ProfileWeights(df, user_id, items)
        dot(i) == SeqSum([k \in 1..Len(items) |->
                      w[k] * Cardinality(ItemFeatures(items[k]) \cap ItemFeatures(i))])
        psq == SeqSum([k \in 1..Len(items) |-> w[k] * dot(items[k])])
    IN  Table([i \in Range(items) |-> Cosine(dot(i), psq, Cardinality(ItemFeatures(i)))],
              items)

RowDot(df, u, v, items) ==
    SeqSum([k \in 1..Len(items) |-> OldValue(df, u, items[k]) * OldValue(df, v, items[k])])

\* Section 4.2: cosine of two users' rows.
Similarity(df, u, v, items) ==
    Cosine(RowDot(df, u, v, items), RowDot(df, u, u, items), RowDot(df, v, v, items))

\* Section 4.2: the similarity-weighted sum of the neighbours' values; the
\* neighbours are the other users whose similarity is above 0 (all of them
\* fit in the top K).
score_collab(df, user_id, items) ==
    LET sims == Computed([k \in 1..Len(df.index) |->
                             Similarity(df, user_id, df.index[k], items)], Len(df.index))
    IN  Table([i \in Range(items) |->
                  SeqSum([k \in 1..Len(df.index) |->
                      IF df.index[k] # user_id /\ sims[k] > 0
                      THEN sims[k] * At(df, df.index[k], i) ELSE 0])], items)

SeqMax(s) == CHOOSE x \in Range(s) : \A y \in Range(s) : y <= x
SeqMin(s) == CHOOSE x \in Range(s) : \A y \in Range(s) : x <= y

\* Section 4.3: min-max normalisation of a score map to [0, 1], in 1/Scale.
MinMax(scores, items) ==
    LET vals == Computed([k \in 1..Len(items) |-> scores[items[k]]], Len(items))
        lo == SeqMin(vals)
        hi == SeqMax(vals)
    IN  Table([i \in Range(items) |->
                  IF hi = lo THEN 0 ELSE ((scores[i] - lo) * Scale) \div (hi - lo)], items)

\* Section 4.3: an unknown strategy is hybrid.
NormStrategy(strategy) == IF strategy \in {"hybrid", "cf", "cb"} THEN strategy ELSE "hybrid"

\* Section 4.3: the fused score of each item, in 1/(10 * Scale) for hybrid;
\* a cold start forces alpha to 1.0.
FusedScores(df, user_id, items, strategy, alpha, cold) ==
    LET a == IF cold THEN ColdAlpha ELSE ClampAlpha(alpha)
        content == score_content(df, user_id, items)
        collab == score_collab(df, user_id, items)
    IN  CASE NormStrategy(strategy) = "cb" -> content
          [] NormStrategy(strategy) = "cf" -> collab
          [] OTHER ->
               LET nc == MinMax(content, items)
                   nl == MinMax(collab, items)
               IN  Table([i \in Range(items) |-> a * nc[i] + (10 - a) * nl[i]], items)

\* Section 4.3: the mood of the context stands for a tag of the item.
Boosted(item_id, context) ==
    context # None /\ MoodTags(context[1]) \cap ItemTags(item_id) # {}

\* Section 4.3: the final score, in 1/BoostDen of the fused score: the fused
\* score times the boost factor for a boosted item.
FinalScores(df, user_id, items, strategy, alpha, context, cold) ==
    LET fused == FusedScores(df, user_id, items, strategy, alpha, cold)
    IN  Table([i \in Range(items) |->
                  fused[i] * (IF Boosted(i, context) THEN BoostNum ELSE BoostDen)], items)

\* Section 4.3: stable sort, descending by score: items enter in catalog order
\* and an item goes behind every item whose score is not smaller.
RECURSIVE InsertByScore(_, _, _)
InsertByScore(sorted, item_id, score) ==
    IF sorted = <<>> THEN <<item_id>>
    ELSE IF score[Head(sorted)] >= score[item_id]
         THEN <<Head(sorted)>> \o InsertByScore(Tail(sorted), item_id, score)
         ELSE <<item_id>> \o sorted

RECURSIVE RankItems(_, _, _)
RankItems(items, n, score) ==
    IF n = 0 THEN <<>>
    ELSE InsertByScore(RankItems(items, n - 1, score), items[n], score)

\* Section 4.3: recommend(user_id, top_n, strategy, alpha, context) on the
\* matrix df whose columns are the catalog; cold says the user had no row.
EngineRank(df, user_id, top_n, strategy, alpha, context, cold) ==
    LET items == df.columns
        score == FinalScores(df, user_id, items, strategy, alpha, context, cold)
        ranked == RankItems(items, Len(items), score)
    IN  [k \in 1..ClampTopN(top_n, Len(items)) |->
            [item_id |-> ranked[k], score |-> score[ranked[k]]]]

(***************************************************************************)
(* SpecRecord: FeedbackManager.record called directly on a loaded matrix,  *)
(* as test_reco_system.py step 5 does.                                     *)
(***************************************************************************)
LoadedUsers == <<"u1", "u2">>

AllUsers == {"u1", "u2", "u3", "z"}
AllItems == Range(Catalog) \cup {"X"}
Cells == AllUsers \X AllItems

InitValues(n, u, i) ==
    CASE n = 1 -> IF u = "u1" /\ i = "A" THEN 10 ELSE 0
      [] n = 2 -> IF u = "u1" THEN (IF i = "A" THEN 45 ELSE IF i = "B" THEN -45 ELSE 50)
                  ELSE (IF i = "A" THEN -50 ELSE IF i = "B" THEN 20 ELSE 0)
      [] OTHER -> IF i = "A" THEN 40 ELSE IF i = "B" THEN -40 ELSE 0

LoadedFrame(n) ==
    Frame(LoadedUsers, Catalog, [c \in Cells |-> InitValues(n, c[1], c[2])])

InitFrames == {LoadedFrame(n) : n \in 1..3}

RecordUsers == {"u1", "z"}
RecordItems == {"A", "X"}
\* (action, weight) pairs: the three actions and an unknown one without a
\* weight, and explicit weights beyond the clip bounds in both directions.
RecordInputs ==
    {<<"like", None>>, <<"dislike", None>>, <<"skip", None>>, <<"view", None>>,
     <<"like", Some(70)>>, <<"dislike", Some(-120)>>}

InitRecord ==
    /\ interactions_df \in InitFrames
    /\ log_lines = 0
    /\ last = NoCall
    /\ nops = 0
    /\ ev = NoEval
    /\ model = BuiltModel
    /\ ver = 0
    /\ acked = 0
    /\ threads = [t \in Threads |-> IdleThread]
    /\ _ENGINE = None
    /\ BootIdle
    /\ http = NoRequest

\* fb.record(interactions_df, user_id, item_id, action, weight); the append to
\* the log file (lines 36-42) raises when the file cannot be opened or written.
RecordStep(user_id, item_id, action, weight, log_ok) ==
    /\ interactions_df' = RecordMatrix(interactions_df, user_id, item_id, action, weight)
    /\ log_lines' = IF log_ok THEN log_lines + 1 ELSE log_lines
    /\ last' = [op |-> "record", user |-> user_id, item |-> item_id,
                action |-> action, weight |-> weight,
                old |-> OldValue(interactions_df, user_id, item_id),
                status |-> IF log_ok THEN "returned" ELSE "raised",
                during |-> ev.pc \in {"loop", "masked", "recommended", "raising"}]
    /\ nops' = nops + 1
    /\ UNCHANGED <<ev, svc>>

RecordCall(user_id, item_id, action, weight, log_ok) ==
    /\ nops < MaxRecords
    /\ RecordStep(user_id, item_id, action, weight, log_ok)

NextRecord ==
    \E user_id \in RecordUsers, item_id \in RecordItems, in \in RecordInputs,
       log_ok \in BOOLEAN :
        RecordCall(user_id, item_id, in[1], in[2], log_ok)

SpecRecord == InitRecord /\ [][NextRecord]_vars

\* C1: after any sequence of record calls on a matrix whose values lie in
\* [-5.0, +5.0], every stored value lies in [-5.0, +5.0].
C1_ValuesStayClipped ==
    \A c \in DOMAIN interactions_df.val :
        interactions_df.val[c] >= -50 /\ interactions_df.val[c] <= 50

\* A 'dislike' recorded on a cell that already held -5.0 left it at -5.0.
C1_Witness ==
    /\ last.op = "record" /\ last.action = "dislike" /\ last.weight = None
    /\ last.old = -50
    /\ At(interactions_df, last.user, last.item) = -50

\* C2: record without a weight stores clamp(old + d, -5.0, +5.0), d = +1.0 for
\* 'like', -1.0 for 'dislike', +0.1 for 'skip'; a 'like' adds exactly 1.0 when
\* old <= 4.0 and stores exactly 5.0 otherwise.
C2_DefaultDeltaApplied ==
    (last.op = "record" /\ last.weight = None
        /\ last.action \in {"like", "dislike", "skip"}) =>
    LET d == IF last.action = "like" THEN 10
             ELSE IF last.action = "dislike" THEN -10 ELSE 1
        sum == last.old + d
        stored == At(interactions_df, last.user, last.item)
    IN  /\ stored = IF sum > 50 THEN 50 ELSE IF sum < -50 THEN -50 ELSE sum
        /\ (last.action = "like" /\ last.old <= 40) => stored = last.old + 10
        /\ (last.action = "like" /\ last.old > 40) => stored = 50

\* A 'like' without a weight was recorded on a cell holding 4.5 and stored 5.0.
C2_Witness ==
    /\ last.op = "record" /\ last.action = "like" /\ last.weight = None
    /\ last.old = 45
    /\ At(interactions_df, last.user, last.item) = 50

\* C12: in every reachable state the columns of the matrix are exactly the
\* catalog's item ids, in catalog order; no record call adds, removes or
\* reorders a column.
C12_ColumnsAreCatalog ==
    interactions_df.columns = Catalog

\* C13: record(u, i, ...) changes only the cell (u, i): every cell that existed
\* keeps its value, no row is removed, and a row created for u holds 0 in every
\* other column and the delta applied to 0 in (u, i).
C13_RecordChangesOneCell ==
    [][(nops' # nops /\ last'.op = "record") =>
        LET u == last'.user
            i == last'.item
            new_row == ~HasRow(interactions_df, u)
        IN  /\ \A c \in DOMAIN interactions_df.val :
                  c # <<u, i>> => interactions_df'.val[c] = interactions_df.val[c]
            /\ \A k \in 1..Len(interactions_df.index) :
                  interactions_df'.index[k] = interactions_df.index[k]
            /\ HasRow(interactions_df', u)
            /\ new_row =>
                  /\ last'.old = 0
                  /\ \A j \in Range(interactions_df'.columns) \ {i} :
                        At(interactions_df', u, j) = 0
            /\ LET sum == last'.old + Weight(last'.action, last'.weight)
               IN  At(interactions_df', u, i) =
                      IF sum > ClipHi THEN ClipHi ELSE IF sum < ClipLo THEN ClipLo ELSE sum]_vars

\* The first call recorded a 'like' for "z", who had no row: the row now holds
\* 1.0 for "A" and 0 for the other items.
C13_Witness ==
    /\ nops = 1 /\ last.op = "record" /\ last.user = "z" /\ last.item = "A"
    /\ last.action = "like" /\ last.weight = None
    /\ At(interactions_df, "z", "A") = 10
    /\ At(interactions_df, "z", "B") = 0
    /\ At(interactions_df, "u1", "A") \in {10, 45, 40}

(***************************************************************************)
(* The metric functions of evaluation.py.  A float is a fraction <<n, d>>   *)
(* with d > 0; the operations below are Python's /, +, * on such values.    *)
(***************************************************************************)
Frac(n, d) == <<n, d>>

FracZero == Frac(0, 1)

FracAdd(a, b) == Frac(a[1] * b[2] + b[1] * a[2], a[2] * b[2])

FracMul(a, b) == Frac(a[1] * b[1], a[2] * b[2])

\* a / b for b > 0
FracDiv(a, b) == Frac(a[1] * b[2], a[2] * b[1])

FracEq(a, b) == a[1] * b[2] = b[1] * a[2]

FracPositive(a) == a[1] * a[2] > 0

\* predicted[:k] with the k of the caller: [:0] is empty, [:-1] drops the last
PredKRaw(predicted, k) ==
    SubSeq(predicted, 1,
           IF k >= 0 THEN Min(k, Len(predicted)) ELSE Max(0, Len(predicted) + k))

\* predicted[:k] after k = max(1, int(k))
PredK(predicted, k) == SubSeq(predicted, 1, Min(Max(1, k), Len(predicted)))

\* precision_recall_at_k(actual, predicted, k), actual given as set(actual)
precision_recall_at_k(actual_set, predicted, k) ==
    IF actual_set = {}
    THEN [precision |-> FracZero, recall |-> FracZero, f1 |-> FracZero]
    ELSE LET hits == Cardinality(actual_set \cap Range(PredK(predicted, k)))
             prec == Frac(hits, Max(1, k))
             rec  == Frac(hits, Cardinality(actual_set))
             sum  == FracAdd(prec, rec)
         IN  [precision |-> prec, recall |-> rec,
              f1 |-> IF FracPositive(sum)
                     THEN FracDiv(FracMul(Frac(2, 1), FracMul(prec, rec)), sum)
                     ELSE FracZero]

\* the loop of average_precision_at_k over pred_k[i..], with hits and score so far
RECURSIVE APLoop(_, _, _, _, _)
APLoop(pred_k, actual_set, i, hits, score) ==
    IF i > Len(pred_k) THEN score
    ELSE IF pred_k[i] \in actual_set
         THEN APLoop(pred_k, actual_set, i + 1, hits + 1,
                     FracAdd(score, Frac(hits + 1, i)))
         ELSE APLoop(pred_k, actual_set, i + 1, hits, score)

\* An average precision divided by k instead of min(k, len(actual_set)).
AveragePrecisionOverK(actual_set, predicted, k) ==
    LET score == APLoop(PredK(predicted, k), actual_set, 1, 0, FracZero)
    IN  FracDiv(score, Frac(Max(1, k), 1))

\* average_precision_at_k(actual, predicted, k), actual given as set(actual)
average_precision_at_k(actual_set, predicted, k) ==
    LET score == APLoop(PredK(predicted, k), actual_set, 1, 0, FracZero)
        denom == Min(Max(1, k), Cardinality(actual_set))
    IN  IF denom > 0 THEN FracDiv(score, Frac(denom, 1)) ELSE FracZero

\* round(x, 6) keeps this many units per 1.
RoundUnit == 1000000

RECURSIVE Gcd(_, _)
Gcd(a, b) == IF b = 0 THEN a ELSE Gcd(b, a % b)

\* The same value in lowest terms.
FracReduce(a) ==
    LET g == Gcd(IF a[1] < 0 THEN -a[1] ELSE a[1], a[2])
    IN  IF g = 0 THEN a ELSE Frac(a[1] \div g, a[2] \div g)

RECURSIVE FracSum(_)
FracSum(xs) ==
    IF xs = <<>> THEN FracZero
    ELSE FracReduce(FracAdd(FracReduce(Head(xs)), FracSum(Tail(xs))))

\* avg(x): float(np.mean(x)) if x else 0.0
Avg(xs) == IF xs = <<>> THEN FracZero ELSE FracDiv(FracSum(xs), Frac(Len(xs), 1))

\* round(x, 6) of a value x >= 0, in units of 1/RoundUnit
Round6(x) == (2 * x[1] * RoundUnit + x[2]) \div (2 * x[2])

(***************************************************************************)
(* evaluate_holdout_at_k(recommender, interactions_df, k), evaluation.py   *)
(* lines 34-62, one action per step of the loop body.  The recommender is  *)
(* a parameter: its answer for a user is any list of item ids, or an       *)
(* exception.  ev.before is the matrix as it was when the call started.    *)
(***************************************************************************)
MaxK == 2

\* list(row[row > 0].index): the positive columns of the row, in column order
RECURSIVE PosItems(_, _, _)
PosItems(df, user_id, n) ==
    IF n > Len(df.columns) THEN <<>>
    ELSE LET item == df.columns[n]
             rest == PosItems(df, user_id, n + 1)
         IN  IF At(df, user_id, item) > 0 THEN <<item>> \o rest ELSE rest

\* What recommender.recommend(user_id, top_n=k) may return: [r["id"] for r in recs]
PredLists ==
    {<<>>, <<"A">>, <<"B">>, <<"A", "B">>, <<"B", "A">>, <<"C", "B", "A">>,
     <<"A", "A">>, <<"B", "A", "B">>}

EvalStart(k) ==
    /\ ev.pc = "idle"
    /\ ev' = [NoEval EXCEPT !.pc = "loop", !.k = k, !.users = interactions_df.index,
                             !.pos = 1, !.before = Some(interactions_df)]
    /\ UNCHANGED <<interactions_df, log_lines, last, nops, svc>>

\* A loop that holds out the last positive item of the row (pos_items[-1]).
EvalMaskLastPositive ==
    /\ ev.pc = "loop"
    /\ ev.pos <= Len(ev.users)
    /\ LET user_id == ev.users[ev.pos]
           pos_items == PosItems(interactions_df, user_id, 1)
       IN  IF pos_items = <<>>
           THEN /\ ev' = [ev EXCEPT !.pos = ev.pos + 1]
                /\ UNCHANGED interactions_df
           ELSE /\ ev' = [ev EXCEPT !.pc = "masked", !.test_item = pos_items[Len(pos_items)],
                                    !.original = At(interactions_df, user_id,
                                                    pos_items[Len(pos_items)])]
                /\ interactions_df' = SetAt(interactions_df, user_id,
                                            pos_items[Len(pos_items)], 0)
    /\ UNCHANGED <<log_lines, last, nops, svc>>

\* for user_id, row in interactions_df.iterrows(): lines 37-44
\* A row without a positive item is passed over (continue).
EvalMask ==
    /\ ev.pc = "loop"
    /\ ev.pos <= Len(ev.users)
    /\ LET user_id == ev.users[ev.pos]
           pos_items == PosItems(interactions_df, user_id, 1)
       IN  IF pos_items = <<>>
           THEN /\ ev' = [ev EXCEPT !.pos = ev.pos + 1]
                /\ UNCHANGED interactions_df
           ELSE /\ ev' = [ev EXCEPT !.pc = "masked", !.test_item = pos_items[1],
                                    !.original = At(interactions_df, user_id, pos_items[1])]
                /\ interactions_df' = SetAt(interactions_df, user_id, pos_items[1], 0)
    /\ UNCHANGED <<log_lines, last, nops, svc>>

\* the try block, lines 45-52: recommend raises, or the metrics of pred are appended
EvalRecommend(raises, pred) ==
    /\ ev.pc = "masked"
    /\ ev' = IF raises THEN [ev EXCEPT !.pc = "raising"]
             ELSE [ev EXCEPT !.pc = "recommended",
                             !.evaluated = Append(ev.evaluated,
                                 [user |-> ev.users[ev.pos], item |-> ev.test_item, pred |-> pred,
                                  m |-> precision_recall_at_k({ev.test_item}, pred, ev.k),
                                  map |-> average_precision_at_k({ev.test_item}, pred, ev.k)])]
    /\ UNCHANGED <<interactions_df, log_lines, last, nops, svc>>

\* A restore that runs only when the try block completed (no finally).
EvalRestoreNoFinally ==
    /\ ev.pc \in {"recommended", "raising"}
    /\ interactions_df' =
          IF ev.pc = "recommended"
          THEN SetAt(interactions_df, ev.users[ev.pos], ev.test_item, ev.original)
          ELSE interactions_df
    /\ ev' = IF ev.pc = "recommended" THEN [ev EXCEPT !.pc = "loop", !.pos = ev.pos + 1]
             ELSE [ev EXCEPT !.pc = "raised"]
    /\ UNCHANGED <<log_lines, last, nops, svc>>

\* finally: interactions_df.at[user_id, test_item] = original (lines 53-54); after
\* it the loop goes on, or the exception of recommend leaves the function.
EvalRestore ==
    /\ ev.pc \in {"recommended", "raising"}
    /\ interactions_df' = SetAt(interactions_df, ev.users[ev.pos], ev.test_item, ev.original)
    /\ ev' = IF ev.pc = "recommended" THEN [ev EXCEPT !.pc = "loop", !.pos = ev.pos + 1]
             ELSE [ev EXCEPT !.pc = "raised"]
    /\ UNCHANGED <<log_lines, last, nops, svc>>

\* lines 55-62: the loop is over, the averages are returned
EvalReturn ==
    /\ ev.pc = "loop"
    /\ ev.pos > Len(ev.users)
    /\ ev' = [ev EXCEPT !.pc = "done", !.result = Some(
          [precision |-> Round6(Avg([n \in 1..Len(ev.evaluated) |-> ev.evaluated[n].m.precision])),
           recall |-> Round6(Avg([n \in 1..Len(ev.evaluated) |-> ev.evaluated[n].m.recall])),
           f1 |-> Round6(Avg([n \in 1..Len(ev.evaluated) |-> ev.evaluated[n].m.f1])),
           map |-> Round6(Avg([n \in 1..Len(ev.evaluated) |-> ev.evaluated[n].map]))])]
    /\ UNCHANGED <<interactions_df, log_lines, last, nops, svc>>

EvalFrames ==
    InitFrames \cup
    {Frame(<<"u1", "u2", "u3">>, Catalog,
           [c \in Cells |-> IF c[1] = "u1" THEN (IF c[2] = "B" THEN 30 ELSE -10)
                            ELSE IF c[1] = "u2" THEN 0
                            ELSE (IF c[2] = "A" THEN 1 ELSE 50)])}

InitEval ==
    /\ interactions_df \in EvalFrames
    /\ log_lines = 0
    /\ last = NoCall
    /\ nops = 0
    /\ ev = NoEval
    /\ model = BuiltModel
    /\ ver = 0
    /\ acked = 0
    /\ threads = [t \in Threads |-> IdleThread]
    /\ _ENGINE = None
    /\ BootIdle
    /\ http = NoRequest

NextEval ==
    \/ \E k \in 0..MaxK : EvalStart(k)
    \/ EvalMask
    \/ \E raises \in BOOLEAN, pred \in PredLists : EvalRecommend(raises, pred)
    \/ EvalRestore
    \/ EvalReturn

SpecEval == InitEval /\ [][NextEval]_vars

\* C4: when evaluate_holdout_at_k has returned, or has been left by an
\* exception of recommender.recommend, the matrix has the rows, the columns and
\* the cell values it had when the call started.
C4_EvalRestoresMatrix ==
    ev.pc \in {"done", "raised"} => interactions_df = ev.before[1]

\* recommend raised for a user whose held-out cell had been set to 0, and the
\* call was left by that exception.
C4_Witness ==
    /\ ev.pc = "raised"
    /\ ev.original > 0
    /\ ev.evaluated # <<>>

\* C11: an exception of recommend for one user is caught and the evaluation
\* goes on with the remaining users: it never leaves evaluate_holdout_at_k.
C11_EvalSurvivesUserFailure ==
    ev.pc # "raised"

\* The 1-based rank of item in predicted, 0 when it is not listed.
RankIn(predicted, item) ==
    IF item \in Range(predicted)
    THEN CHOOSE r \in 1..Len(predicted) :
            predicted[r] = item /\ \A q \in 1..(r - 1) : predicted[q] # item
    ELSE 0

NoRepeats(predicted) ==
    \A a, b \in 1..Len(predicted) : predicted[a] = predicted[b] => a = b

\* C20: for one held-out item h and a predicted list without repeats, the
\* average precision is 1/r when h is at rank r <= max(1, k), and 0 when h is
\* not among the first max(1, k) entries.
C20_AveragePrecisionIsReciprocalRank ==
    \A n \in 1..Len(ev.evaluated) :
        LET e == ev.evaluated[n]
            r == RankIn(e.pred, e.item)
        IN  NoRepeats(e.pred) =>
                IF r >= 1 /\ r <= Max(1, ev.k)
                THEN FracEq(e.map, Frac(1, r))
                ELSE FracEq(e.map, FracZero)

\* With k = 2 the held-out item "A" came second in the list: 1/2.
C20_Witness ==
    \E n \in 1..Len(ev.evaluated) :
        /\ ev.k = 2
        /\ ev.evaluated[n].item = "A"
        /\ ev.evaluated[n].pred = <<"B", "A">>
        /\ FracEq(ev.evaluated[n].map, Frac(1, 2))

\* The users of the matrix before the evaluation that have a positive value,
\* in row order.
RECURSIVE EligibleUsers(_, _)
EligibleUsers(df, n) ==
    IF n = 0 THEN <<>>
    ELSE IF \E i \in Range(df.columns) : At(df, df.index[n], i) > 0
         THEN Append(EligibleUsers(df, n - 1), df.index[n])
         ELSE EligibleUsers(df, n - 1)

\* The number of evaluated users whose held-out item is among the first
\* max(1, k) predicted ids.
RECURSIVE HitCount(_, _, _)
HitCount(evaluated, k, n) ==
    IF n = 0 THEN 0
    ELSE HitCount(evaluated, k, n - 1) +
         (IF \E r \in 1..Min(Max(1, k), Len(evaluated[n].pred)) :
                evaluated[n].pred[r] = evaluated[n].item
          THEN 1 ELSE 0)

\* reported is sum / count rounded to 6 places, for sum = num / den
IsRoundedMean(reported, num, den, count) ==
    IF count = 0 THEN reported = 0
    ELSE LET diff == reported * den * count - num * RoundUnit
         IN  2 * diff <= den * count /\ 2 * diff > -(den * count)

ChangedCells == {c \in DOMAIN interactions_df.val : interactions_df.val[c] # ev.before[1].val[c]}

\* C29: while the evaluation runs, at most one cell differs from its value
\* before the evaluation: the held-out item of the user being evaluated, which
\* holds 0; between two users no cell differs.
C29_OnlyHeldOutCellDiffers ==
    ev.pc # "idle" =>
        /\ interactions_df.index = ev.before[1].index
        /\ interactions_df.columns = ev.before[1].columns
        /\ IF ev.pc \in {"masked", "recommended", "raising"}
           THEN /\ ChangedCells = {<<ev.users[ev.pos], ev.test_item>>}
                /\ At(interactions_df, ev.users[ev.pos], ev.test_item) = 0
                /\ ev.original > 0
           ELSE ChangedCells = {}

\* The second user of the matrix is being evaluated: the first one's cell is
\* back and the second one's held-out cell holds 0.
C29_Witness ==
    /\ ev.pc = "recommended" /\ ev.pos = 2
    /\ Len(ev.evaluated) = 2
    /\ ChangedCells = {<<ev.users[2], ev.test_item>>}
    /\ At(ev.before[1], ev.evaluated[1].user, ev.evaluated[1].item) > 0

FracInUnit(a) == a[1] >= 0 /\ a[1] <= a[2]

\* C30: the precision, recall, f1 and average precision computed for a user
\* are in [0, 1], whatever list the recommender returned, a list that repeats
\* an id included.
C30_MetricsInUnitInterval ==
    \A n \in 1..Len(ev.evaluated) :
        /\ FracInUnit(ev.evaluated[n].m.precision)
        /\ FracInUnit(ev.evaluated[n].m.recall)
        /\ FracInUnit(ev.evaluated[n].m.f1)
        /\ FracInUnit(ev.evaluated[n].map)

(***************************************************************************)
(* SpecEvalModel: evaluate_holdout_at_k with the built model as the        *)
(* recommender, as main() calls it.                                        *)
(***************************************************************************)
EvalModelKs == (-1..MaxK) \cup {Len(Catalog) + 2}

\* [r["id"] for r in recs]
RecIds(recs) == [n \in 1..Len(recs) |-> recs[n].item_id]

\* model.recommend(user_id, top_n): the hybrid ranking with the model's alpha
ModelRecommend(df, user_id, top_n) ==
    RecIds(EngineRank(df, user_id, top_n, "hybrid", model.alpha, None, FALSE))

\* line 46 with the model: recs = recommender.recommend(user_id, top_n=k)
EvalRecommendModel ==
    /\ ev.pc = "masked"
    /\ EvalRecommend(FALSE, ModelRecommend(interactions_df, ev.users[ev.pos], ev.k))

NextEvalModel ==
    \/ \E k \in EvalModelKs : EvalStart(k)
    \/ EvalMask
    \/ EvalRecommendModel
    \/ EvalRestore
    \/ EvalReturn

SpecEvalModel == InitEval /\ [][NextEvalModel]_vars

MaxEvalWrites == 1

EvalWriteUsers == {"u1", "z"}
EvalWriteItems == {"A", "B"}
EvalWriteActions == {"like", "dislike"}

\* fb.record on the other thread, at any point of the evaluation
EvalFeedback(user_id, item_id, action) ==
    /\ nops < MaxEvalWrites
    /\ RecordStep(user_id, item_id, action, None, TRUE)

NextEvalConc ==
    \/ NextEval
    \/ \E user_id \in EvalWriteUsers, item_id \in EvalWriteItems,
          action \in EvalWriteActions : EvalFeedback(user_id, item_id, action)

SpecEvalConc == InitEval /\ [][NextEvalConc]_vars

\* C8: a feedback for (u, i) applied while the evaluation runs ends, once the
\* evaluation has finished, with (u, i) holding the pre-evaluation value plus
\* the feedback delta, clamped.
C8_EvalNeverLosesFeedback ==
    (ev.pc \in {"done", "raised"} /\ nops = 1 /\ last.op = "record" /\ last.during) =>
        LET before == OldValue(ev.before[1], last.user, last.item)
            d == IF last.action = "like" THEN 10 ELSE -10
            sum == before + d
        IN  At(interactions_df, last.user, last.item) =
                IF sum > 50 THEN 50 ELSE IF sum < -50 THEN -50 ELSE sum

(***************************************************************************)
(* SpecApi: the FastAPI service of create_app (main.py lines 23-57).  The  *)
(* endpoints are plain functions, which the server runs on worker threads: *)
(* each thread takes a request and runs its handler one statement at a     *)
(* time, interleaved with the other thread.                                *)
(***************************************************************************)
MaxRequests == 3

ApiUsers == {"u1", "z"}
ApiItems == {"A"}
ApiActions == {"like", "dislike"}
ApiAlphas == {-5, 3, 12}
ApiTopN == {0, 5}

Free(t) == threads[t].pc \in {"idle", "done"} /\ nops < MaxRequests

\* POST /feedback, line 50: fb.record(bundle["interactions_df"], user_id, item_id, action).
\* When the append to the log raises, the handler answers status error (line 54).
ApiFeedbackRecord(t, user_id, item_id, action, log_ok) ==
    /\ Free(t)
    /\ interactions_df' = RecordMatrix(interactions_df, user_id, item_id, action, None)
    /\ ver' = ver + 1
    /\ log_lines' = IF log_ok THEN log_lines + 1 ELSE log_lines
    /\ threads' = [threads EXCEPT ![t] =
          [IdleThread EXCEPT !.pc = IF log_ok THEN "fb_load" ELSE "done",
                             !.op = "feedback", !.user = user_id, !.item = item_id,
                             !.action = action, !.log_ok = log_ok, !.n = ver + 1,
                             !.resp = IF log_ok THEN "" ELSE "error"]]
    /\ nops' = nops + 1
    /\ UNCHANGED <<last, ev, model, acked, api>>

\* line 51: bundle["model"].load_data(bundle["items_df"], bundle["interactions_df"])
ApiFeedbackLoad(t) ==
    /\ threads[t].pc = "fb_load"
    /\ model' = LoadData(model, ver)
    /\ threads' = [threads EXCEPT ![t].pc = "fb_train"]
    /\ UNCHANGED <<interactions_df, log_lines, last, nops, ev, ver, acked, api>>

\* A handler that answers success without retraining.
ApiFeedbackNoTrain(t) ==
    /\ threads[t].pc = "fb_train"
    /\ threads' = [threads EXCEPT ![t].pc = "done", ![t].resp = "success"]
    /\ acked' = Max(acked, threads[t].n)
    /\ UNCHANGED <<interactions_df, log_lines, last, nops, ev, ver, model, api>>

\* lines 52-53: bundle["model"].train(); return {"status": "success"}
ApiFeedbackTrain(t) ==
    /\ threads[t].pc = "fb_train"
    /\ model' = Train(model)
    /\ threads' = [threads EXCEPT ![t].pc = "done", ![t].resp = "success"]
    /\ acked' = Max(acked, threads[t].n)
    /\ UNCHANGED <<interactions_df, log_lines, last, nops, ev, ver, api>>

\* GET /recommend, line 34: bundle["model"].alpha = float(max(0.0, min(1.0, alpha)))
ApiRecommendAlpha(t, user_id, top_n, alpha) ==
    /\ Free(t)
    /\ model' = [model EXCEPT !.alpha = ClampAlpha(alpha)]
    /\ threads' = [threads EXCEPT ![t] =
          [IdleThread EXCEPT !.pc = "rc_compute", !.op = "recommend", !.user = user_id,
                             !.top_n = top_n, !.alpha = alpha, !.must_see = acked]]
    /\ nops' = nops + 1
    /\ UNCHANGED <<interactions_df, log_lines, last, ev, ver, acked, api>>

\* The handler puts the default alpha back once the answer is computed.
ApiRecommendComputeResetAlpha(t) ==
    /\ threads[t].pc = "rc_compute"
    /\ interactions_df' = ColdStart(interactions_df, threads[t].user)
    /\ model' = [model EXCEPT !.alpha = DefaultAlpha]
    /\ threads' = [threads EXCEPT
          ![t].pc = "done", ![t].resp = "ok",
          ![t].alpha_used = model.alpha,
          ![t].trained_seen = model.trained,
          ![t].overlap = \E o \in Threads \ {t} : threads[o].pc \in {"fb_load", "fb_train"},
          ![t].n_items = RecommendCount(threads[t].top_n)]
    /\ UNCHANGED <<log_lines, last, nops, ev, ver, acked, api>>

\* lines 35-43: recs = bundle["model"].recommend(user_id, top_n=top_n) and the answer.
\* The call reads the matrix, the trained scorers and model.alpha as they are now.
ApiRecommendCompute(t) ==
    /\ threads[t].pc = "rc_compute"
    /\ interactions_df' = ColdStart(interactions_df, threads[t].user)
    /\ threads' = [threads EXCEPT
          ![t].pc = "done", ![t].resp = "ok",
          ![t].alpha_used = model.alpha,
          ![t].trained_seen = model.trained,
          ![t].overlap = \E o \in Threads \ {t} : threads[o].pc \in {"fb_load", "fb_train"},
          ![t].n_items = RecommendCount(threads[t].top_n)]
    /\ UNCHANGED <<log_lines, last, nops, ev, model, ver, acked, api>>

InitApi ==
    /\ interactions_df = LoadedFrame(2)
    /\ log_lines = 0
    /\ last = NoCall
    /\ nops = 0
    /\ ev = NoEval
    /\ model = BuiltModel
    /\ ver = 0
    /\ acked = 0
    /\ threads = [t \in Threads |-> IdleThread]
    /\ _ENGINE = None
    /\ BootIdle
    /\ http = NoRequest

NextApi ==
    \E t \in Threads :
        \/ \E user_id \in ApiUsers, item_id \in ApiItems, action \in ApiActions,
              log_ok \in BOOLEAN : ApiFeedbackRecord(t, user_id, item_id, action, log_ok)
        \/ ApiFeedbackLoad(t)
        \/ ApiFeedbackTrain(t)
        \/ \E user_id \in ApiUsers, top_n \in ApiTopN, alpha \in ApiAlphas :
              ApiRecommendAlpha(t, user_id, top_n, alpha)
        \/ ApiRecommendCompute(t)

SpecApi == InitApi /\ [][NextApi]_vars

\* C3: when a feedback request has answered success, the scorers have been
\* trained on data that includes its write; a recommend request that started
\* after that answer computed from scorers that include the write.
C3_NoStaleness ==
    /\ \A t \in Threads :
          (threads[t].op = "feedback" /\ threads[t].resp = "success") =>
              (model.trained >= threads[t].n /\ model.loaded >= threads[t].n)
    /\ model.trained >= acked
    /\ \A t \in Threads :
          (threads[t].op = "recommend" /\ threads[t].resp = "ok") =>
              threads[t].trained_seen >= threads[t].must_see

\* A recommend that started after a feedback's success answer has been computed.
C3_Witness ==
    \E t \in Threads :
        /\ threads[t].op = "recommend" /\ threads[t].resp = "ok"
        /\ threads[t].must_see > 0
        /\ threads[t].trained_seen >= threads[t].must_see

\* C7: no recommend executes between a feedback's write to the matrix and the
\* end of that feedback's retrain.
C7_RecommendNeverOverlapsRetrain ==
    \A t \in Threads :
        (threads[t].op = "recommend" /\ threads[t].resp = "ok") => ~threads[t].overlap

\* C10 (create_app): a feedback whose log append failed is still answered
\* success, with the model reloaded and retrained on its write.
C10_LogFailureNonFatalApi ==
    \A t \in Threads :
        (threads[t].op = "feedback" /\ threads[t].pc = "done" /\ ~threads[t].log_ok) =>
            (threads[t].resp = "success" /\ model.trained >= threads[t].n)

\* A step of thread t that enters create_app.recommend (line 34).
RecommendEnters(t) == threads[t].pc # "rc_compute" /\ threads'[t].pc = "rc_compute"

\* A step of thread t that runs model.recommend and answers (lines 35-43).
RecommendAnswers(t) == threads[t].pc = "rc_compute" /\ threads'[t].pc = "done"

C18_FusingAlphaIsClampedAlpha ==
    \A t \in Threads :
        (threads[t].pc = "done" /\ threads[t].op = "recommend") =>
            threads[t].alpha_used = ClampAlpha(threads[t].alpha)

\* C26: a feedback request answered with an error status leaves the matrix
\* and the served model as they were before the request.
C26_ErrorFeedbackChangesNothing ==
    [][\A t \in Threads :
          (threads'[t] # threads[t] /\ threads'[t].op = "feedback"
                                    /\ threads'[t].resp = "error") =>
              interactions_df' = interactions_df /\ model' = model]_vars

\* C27: when model.recommend runs for a request, the alpha of the shared
\* model is that request's own alpha clamped to [0, 1], also when another
\* recommend request runs at the same time.
C27_OwnAlphaUnderConcurrency ==
    [][\A t \in Threads :
          RecommendAnswers(t) => model.alpha = ClampAlpha(threads[t].alpha)]_vars

(***************************************************************************)
(* SpecFlask: the blueprint reco_bp (app/recommendations.py), one request  *)
(* after the other.  RecommendationEngine is imported from                 *)
(* models.recommendations; its recommend and feedback are modelled from    *)
(* the specification (cold-start row, top_n clamp, Feedback Manager update *)
(* followed by a synchronous retrain).  Until the engine is built,         *)
(* interactions_df holds the table the engine will load.                   *)
(***************************************************************************)
MaxFlaskRequests == 3

\* request fields: None is a missing key, Some("") an empty string
FlaskUserIds == {None, Some(""), Some("u1"), Some("z")}
FlaskItemIds == {None, Some(""), Some("A"), Some("X")}
\* 'rating': absent, a number (tenths), or a value float() rejects
FlaskRatings == {<<"absent", 0>>, <<"num", -10>>, <<"num", 50>>, <<"bad", 0>>}
FlaskTopN == {0, 3, 5}

\* if not user_id: None and "" are falsy
Falsy(field) == field = None \/ field[1] = ""

\* get_engine(), lines 19-23
GetEngine(engine) == IF engine = None THEN Some("engine") ELSE engine

\* engine.recommend(user_id, top_n, ...): [err, df, n]
EngineRecommend(df, user_id, top_n) ==
    [err |-> "", df |-> ColdStart(df, user_id), n |-> RecommendCount(top_n)]

\* engine.feedback(user_id, item_id, rating): the Feedback Manager update with
\* the rating as weight
EngineFeedback(df, user_id, item_id, rating) ==
    RecordMatrix(df, user_id, item_id, "like", Some(rating))

\* A route that looks the user up and answers 404 when there is no row.
FlaskRecommendLookup(user_id, top_n) ==
    /\ nops < MaxFlaskRequests
    /\ nops' = nops + 1
    /\ IF Falsy(user_id)
       THEN /\ http' = [NoRequest EXCEPT !.route = "recommend", !.user = user_id,
                                         !.top_n = top_n, !.status = 400]
            /\ UNCHANGED <<interactions_df, _ENGINE, boot>>
       ELSE /\ _ENGINE' = GetEngine(_ENGINE)
            /\ UNCHANGED interactions_df
            /\ http' = [NoRequest EXCEPT
                  !.route = "recommend", !.user = user_id, !.top_n = top_n,
                  !.cold = ~HasRow(interactions_df, user_id[1]), !.called = TRUE,
                  !.status = IF HasRow(interactions_df, user_id[1]) THEN 200 ELSE 404,
                  !.n_items = IF HasRow(interactions_df, user_id[1])
                              THEN RecommendCount(top_n) ELSE 0]
    /\ UNCHANGED <<log_lines, last, ev, model, ver, acked, threads, boot>>

\* POST /api/reco/recommend, lines 35-54
FlaskRecommend(user_id, top_n) ==
    /\ nops < MaxFlaskRequests
    /\ nops' = nops + 1
    /\ IF Falsy(user_id)
       THEN /\ http' = [NoRequest EXCEPT !.route = "recommend", !.user = user_id,
                                         !.top_n = top_n, !.status = 400]
            /\ UNCHANGED <<interactions_df, _ENGINE, boot>>
       ELSE LET r == EngineRecommend(interactions_df, user_id[1], top_n)
            IN  /\ _ENGINE' = GetEngine(_ENGINE)
                /\ interactions_df' = r.df
                /\ http' = [NoRequest EXCEPT
                      !.route = "recommend", !.user = user_id, !.top_n = top_n,
                      !.cold = ~HasRow(interactions_df, user_id[1]), !.called = TRUE,
                      !.status = IF r.err = "" THEN 200
                                 ELSE IF r.err = "KeyError" THEN 404 ELSE 500,
                      !.n_items = IF r.err = "" THEN r.n ELSE 0]
    /\ UNCHANGED <<log_lines, last, ev, model, ver, acked, threads, boot>>

\* POST /api/reco/feedback, lines 114-143
FlaskFeedback(user_id, item_id, rating, log_ok) ==
    /\ nops < MaxFlaskRequests
    /\ nops' = nops + 1
    /\ LET req == [NoRequest EXCEPT !.route = "feedback", !.user = user_id,
                                    !.item = item_id, !.rating = rating,
                                    !.log_ok = log_ok]
           value == IF rating[1] = "absent" THEN 0 ELSE rating[2]
       IN  IF rating[1] = "bad"
           THEN \* float(data.get('rating', 0)) raises: the except branch, line 143
                /\ http' = [req EXCEPT !.status = 500]
                /\ UNCHANGED <<interactions_df, _ENGINE, model, ver, log_lines, boot>>
           ELSE IF Falsy(user_id) \/ Falsy(item_id) \/ value <= 0
           THEN /\ http' = [req EXCEPT !.status = 400]
                /\ UNCHANGED <<interactions_df, _ENGINE, model, ver, log_lines, boot>>
           ELSE /\ _ENGINE' = GetEngine(_ENGINE)
                /\ interactions_df' =
                      EngineFeedback(interactions_df, user_id[1], item_id[1], value)
                /\ ver' = ver + 1
                /\ model' = Train(LoadData(model, ver + 1))
                /\ log_lines' = IF log_ok THEN log_lines + 1 ELSE log_lines
                /\ http' = [req EXCEPT !.called = TRUE,
                                       !.status = IF log_ok THEN 200 ELSE 500]
    /\ UNCHANGED <<last, ev, acked, threads, boot>>

\* GET /api/reco/model-info and /health, lines 26-32 and 103-111
FlaskModelInfo ==
    /\ nops < MaxFlaskRequests
    /\ nops' = nops + 1
    /\ _ENGINE' = GetEngine(_ENGINE)
    /\ http' = [NoRequest EXCEPT !.route = "model-info", !.called = TRUE, !.status = 200]
    /\ UNCHANGED <<interactions_df, log_lines, last, ev, model, ver, acked, threads, boot>>

InitFlask ==
    /\ interactions_df \in InitFrames
    /\ log_lines = 0
    /\ last = NoCall
    /\ nops = 0
    /\ ev = NoEval
    /\ model = BuiltModel
    /\ ver = 0
    /\ acked = 0
    /\ threads = [t \in Threads |-> IdleThread]
    /\ _ENGINE = None
    /\ BootIdle
    /\ http = NoRequest

NextFlask ==
    \/ \E user_id \in FlaskUserIds, top_n \in FlaskTopN : FlaskRecommend(user_id, top_n)
    \/ \E user_id \in FlaskUserIds, item_id \in FlaskItemIds, rating \in FlaskRatings,
          log_ok \in BOOLEAN : FlaskFeedback(user_id, item_id, rating, log_ok)
    \/ FlaskModelInfo

SpecFlask == InitFlask /\ [][NextFlask]_vars

ZeroRow(df, user_id) ==
    HasRow(df, user_id) /\ \A i \in Range(df.columns) : At(df, user_id, i) = 0

FeedbackFor(req, user_id) ==
    req.route = "feedback" /\ req.called /\ req.user = Some(user_id)

\* C6: after recommend for a user without a row, the user has an all-zero row;
\* an all-zero row stays as it is in every step that is not a feedback recorded
\* for that user; a recommend changes no cell of the rows that existed.
C6_ColdStartRowPersists ==
    /\ []((http.route = "recommend" /\ http.cold /\ http.status = 200) =>
            ZeroRow(interactions_df, http.user[1]))
    /\ [][/\ \A u \in AllUsers :
               (ZeroRow(interactions_df, u) /\ ~(nops' # nops /\ FeedbackFor(http', u)))
                   => ZeroRow(interactions_df', u)
          /\ (nops' # nops /\ http'.route = "recommend") =>
               /\ interactions_df'.columns = interactions_df.columns
               /\ \A c \in DOMAIN interactions_df.val :
                      interactions_df'.val[c] = interactions_df.val[c]]_vars

\* "z" got its row from a recommend; a later feedback recorded for "u1" left the
\* row of "z" in place, all zero.
C6_Witness ==
    /\ ZeroRow(interactions_df, "z")
    /\ FeedbackFor(http, "u1") /\ http.status = 200

\* C9: a feedback request whose user_id or item_id is missing or empty, or
\* whose rating is absent or <= 0, is answered 400 without calling
\* engine.feedback, whatever its other fields are.
C9_InvalidFeedbackRejected400 ==
    (/\ http.route = "feedback"
     /\ \/ Falsy(http.user)
        \/ Falsy(http.item)
        \/ http.rating[1] = "absent"
        \/ (http.rating[1] = "num" /\ http.rating[2] <= 0)) =>
        (http.status = 400 /\ ~http.called)


(***************************************************************************)
(* SpecRank: GET /api/reco/recommendations with its query parameters on a  *)
(* loaded engine, and likes recorded between the requests.                 *)
(***************************************************************************)
MaxLikes == 3

\* A catalog of two items with the single user "U", and the catalog of three
\* with a second user "V" who dislikes "B" and "C".
RankFrames ==
    {Frame(<<"U">>, <<"A", "B">>,
           [c \in {"U"} \X {"A", "B"} |-> IF c[2] = "A" THEN 10 ELSE 0]),
     Frame(<<"U", "V">>, Catalog,
           [c \in {"U", "V"} \X Range(Catalog) |->
               IF c[1] = "U" THEN (IF c[2] = "A" THEN 10 ELSE 0)
               ELSE (IF c[2] = "A" THEN 10 ELSE IF c[2] = "B" THEN -10 ELSE -11)])}

RankUserIds == {None, Some("U"), Some("z")}
RankTopN == {0, 2, 5}
RankAlphas == {3, 12}
RankStrategies == {"cb", "CF", "best"}
RankMoods == {Some(""), Some("tired")}

\* str.lower() on the strategies the requests carry
Lower(strategy) == IF strategy = "CF" THEN "cf" ELSE strategy

\* [_map(it) for it in items] with the list turned around.
MapItemsReversed(items) ==
    [k \in 1..Len(items) |->
        [id |-> items[Len(items) + 1 - k].item_id, score |-> items[Len(items) + 1 - k].score]]

\* [_map(it) for it in items], lines 77-86
MapItems(items) ==
    [k \in 1..Len(items) |-> [id |-> items[k].item_id, score |-> items[k].score]]

\* context = {}; if request.args.get('mood'): context['mood'] = ... (lines 70-72)
MoodContext(mood) == IF mood = None \/ mood[1] = "" THEN None ELSE mood

\* GET /api/reco/recommendations, lines 57-92
RankRecommend(user_id, top_n, alpha, strategy, mood) ==
    IF Falsy(user_id)
    THEN /\ last' = [op |-> "recommendations", user |-> user_id, top_n |-> top_n,
                     alpha |-> alpha, strategy |-> strategy, mood |-> mood,
                     cold |-> FALSE, status |-> 400, recs |-> <<>>]
         /\ UNCHANGED <<interactions_df, log_lines, nops, ev, svc>>
    ELSE LET cold == ~HasRow(interactions_df, user_id[1])
             items == EngineRank(interactions_df, user_id[1], top_n, Lower(strategy),
                                 alpha, MoodContext(mood), cold)
         IN  /\ _ENGINE' = GetEngine(_ENGINE)
             /\ interactions_df' = ColdStart(interactions_df, user_id[1])
             /\ last' = [op |-> "recommendations", user |-> user_id, top_n |-> top_n,
                         alpha |-> alpha, strategy |-> strategy, mood |-> mood,
                         cold |-> cold, status |-> 200, recs |-> MapItems(items)]
             /\ UNCHANGED <<log_lines, nops, ev, model, ver, acked, threads, http, boot>>

\* fb.record(interactions_df, "U", "B", "like") and the retrain that follows
RankLike ==
    /\ nops < MaxLikes
    /\ HasRow(interactions_df, "U")
    /\ RecordStep("U", "B", "like", None, TRUE)

InitRank ==
    /\ interactions_df \in RankFrames
    /\ log_lines = 0
    /\ last = NoCall
    /\ nops = 0
    /\ ev = NoEval
    /\ model = BuiltModel
    /\ ver = 0
    /\ acked = 0
    /\ threads = [t \in Threads |-> IdleThread]
    /\ _ENGINE = None
    /\ BootIdle
    /\ http = NoRequest

NextRank ==
    \/ \E user_id \in RankUserIds, top_n \in RankTopN, alpha \in RankAlphas,
          strategy \in RankStrategies, mood \in RankMoods :
          RankRecommend(user_id, top_n, alpha, strategy, mood)
    \/ RankLike

SpecRank == InitRank /\ [][NextRank]_vars

\* The last request was answered with a list.
Answered == last.op = "recommendations" /\ last.status = 200

\* The position of an item in the catalog, and in an answered list (0: not in it).
CatalogPos(item_id) ==
    CHOOSE k \in 1..Len(interactions_df.columns) : interactions_df.columns[k] = item_id

ListPos(recs, item_id) ==
    IF \E k \in 1..Len(recs) : recs[k].id = item_id
    THEN CHOOSE k \in 1..Len(recs) : recs[k].id = item_id
    ELSE 0

\* The final scores behind the last answer, and the same without a context.
LastScores(context) ==
    FinalScores(interactions_df, last.user[1], interactions_df.columns,
                Lower(last.strategy), last.alpha, context, last.cold)

\* The answer the engine gives to the last request when there is no context.
LastWithoutContext ==
    MapItems(EngineRank(interactions_df, last.user[1], last.top_n, Lower(last.strategy),
                        last.alpha, None, last.cold))

\* C15: the returned list is ordered by non-increasing final score, items of
\* equal score in catalog order, and holds the best items: the scores it
\* reports are the final scores and no item left out beats a listed one.
C15_RankedByScoreThenCatalog ==
    Answered =>
        /\ \A a, b \in 1..Len(last.recs) :
              a < b =>
                 \/ last.recs[a].score > last.recs[b].score
                 \/ /\ last.recs[a].score = last.recs[b].score
                    /\ CatalogPos(last.recs[a].id) < CatalogPos(last.recs[b].id)
        /\ \A k \in 1..Len(last.recs) :
              last.recs[k].score = LastScores(MoodContext(last.mood))[last.recs[k].id]
        /\ \A i \in Range(interactions_df.columns) :
              ListPos(last.recs, i) = 0 =>
                 \A k \in 1..Len(last.recs) :
                    \/ last.recs[k].score > LastScores(MoodContext(last.mood))[i]
                    \/ /\ last.recs[k].score = LastScores(MoodContext(last.mood))[i]
                       /\ CatalogPos(last.recs[k].id) < CatalogPos(i)

\* Three items were listed: the first and the second tie and come in catalog
\* order, and both beat the third.
C15_Witness ==
    /\ Answered
    /\ Len(last.recs) = 3
    /\ last.recs[1].score = last.recs[2].score
    /\ CatalogPos(last.recs[1].id) < CatalogPos(last.recs[2].id)
    /\ last.recs[2].score > last.recs[3].score

\* C16: with a context whose mood stands for a tag, and top_n covering the
\* catalog, no item carrying the tag is listed below an item without it that
\* it was listed above without the context, and the scores of the items
\* without the tag are the same as without the context.
C16_BoostIsRankMonotone ==
    (Answered /\ MoodContext(last.mood) # None
              /\ last.top_n >= Len(interactions_df.columns)) =>
        LET base == LastWithoutContext
        IN  \A s, o \in Range(interactions_df.columns) :
               (Boosted(s, last.mood) /\ ~Boosted(o, last.mood)) =>
                  /\ ListPos(base, s) < ListPos(base, o) =>
                        ListPos(last.recs, s) < ListPos(last.recs, o)
                  /\ last.recs[ListPos(last.recs, o)].score = base[ListPos(base, o)].score

\* C17: with the catalog A {calm}, B {energetic} and the single user U with
\* (U, A) = 1.0, recommend(U, 2, 'cb') lists A before B; after three likes of
\* B the value of (U, B) is 3.0 and recommend(U, 2, 'cf') lists B first, with
\* a score that is not below A's.
C17_LikesLiftBUnderCf ==
    (/\ interactions_df.index = <<"U">>
     /\ interactions_df.columns = <<"A", "B">>
     /\ At(interactions_df, "U", "A") = 10
     /\ Answered /\ last.user = Some("U") /\ last.top_n = 2) =>
        /\ (nops = 0 /\ Lower(last.strategy) = "cb") =>
              ListPos(last.recs, "A") = 1 /\ ListPos(last.recs, "B") = 2
        /\ nops = 3 => At(interactions_df, "U", "B") = 30
        /\ (nops = 3 /\ Lower(last.strategy) = "cf") =>
              /\ ListPos(last.recs, "B") = 1 /\ ListPos(last.recs, "A") = 2
              /\ last.recs[1].score >= last.recs[2].score

(***************************************************************************)
(* SpecLoad: build_model (main.py lines 15-20) on a datasets directory     *)
(* whose files are present or not, with or without the optional columns,   *)
(* and with cells that are filled or empty.                                *)
(***************************************************************************)
\* Contents of a 'tags' cell: "a", " a ", "a,b", "a, b", ",a", " ", "a,,b", "a b"
TagStrings ==
    {<<"a">>, <<" ", "a", " ">>, <<"a", ",", "b">>, <<"a", ",", " ", "b">>,
     <<",", "a">>, <<" ">>, <<"a", ",", ",", "b">>, <<"a", " ", "b">>}
TagCells == {None} \cup {Some(s) : s \in TagStrings}
CategoryCells == {None, Some("Audio")}
ItemColumnSets ==
    {{"item_id", "title", "category", "tags"}, {"item_id", "title", "category"},
     {"item_id", "title", "tags"}, {"title", "category", "tags"}}

\* A cell of a column the file does not have
CellOf(columns, column, cell) == IF column \in columns THEN cell ELSE None

RawItems ==
    {[columns |-> cs,
      rows |-> <<ItemRow("A", CellOf(cs, "category", c1), CellOf(cs, "tags", t1)),
                 ItemRow("B", CellOf(cs, "category", c2), CellOf(cs, "tags", t2))>>] :
        cs \in ItemColumnSets, c1 \in CategoryCells, t1 \in TagCells,
        c2 \in CategoryCells, t2 \in {None, Some(<<"b">>)}}

\* interactions.csv with a column for an item the catalog lacks and none for "A"
RawInteractions ==
    Frame(<<"u1">>, <<"B", "Q">>, [c \in {"u1"} \X {"B", "Q"} |-> IF c[2] = "B" THEN 10 ELSE 20])

LoadInputs ==
    {[items |-> CsvFile(t), interactions |-> f] :
        t \in RawItems, f \in {CsvFile(RawInteractions), BadFile("missing")}}
    \cup {[items |-> BadFile(s), interactions |-> CsvFile(RawInteractions)] :
            s \in {"missing", "malformed"}}

EmptyFrame == Frame(<<>>, <<>>, <<>>)

\* bundle = build_model(args.data_dir, alpha=args.alpha), main.py line 69
BuildModel ==
    /\ nops = 0
    /\ nops' = nops + 1
    /\ LET r == load_reco_datasets(datasets)
       IN  IF r.raised
           THEN /\ last' = [op |-> "build_model", raised |-> TRUE, error |-> r.error]
                /\ UNCHANGED <<interactions_df, items_df, model>>
           ELSE /\ last' = [op |-> "build_model", raised |-> FALSE, error |-> ""]
                /\ items_df' = r.items
                /\ interactions_df' = r.interactions[1]
                /\ model' = Train(LoadData(BuiltModel, ver))
    /\ UNCHANGED <<log_lines, ev, ver, acked, threads, _ENGINE, http,
                   datasets, _LAST_EVAL, _LAST_EVAL_RESULT, now, engines>>

InitLoad ==
    /\ interactions_df = EmptyFrame
    /\ log_lines = 0
    /\ last = NoCall
    /\ nops = 0
    /\ ev = NoEval
    /\ model = None
    /\ ver = 0
    /\ acked = 0
    /\ threads = [t \in Threads |-> IdleThread]
    /\ _ENGINE = None
    /\ http = NoRequest
    /\ datasets \in LoadInputs
    /\ items_df = None
    /\ _LAST_EVAL = None
    /\ _LAST_EVAL_RESULT = None
    /\ now = 0
    /\ engines = 0

NextLoad == BuildModel

SpecLoad == InitLoad /\ [][NextLoad]_vars

Loaded == last.op = "build_model" /\ ~last.raised

\* A tag as the loader must leave it: not empty, no whitespace around it.
UsableTag(t) == t # <<>> /\ Head(t) # " " /\ t[Len(t)] # " "

\* C24: after load_reco_datasets every item row has a usable category and
\* usable tags: a row whose tags are missing (the cell or the whole column)
\* has the empty list, a row whose category is missing (the cell or the whole
\* column) has 'Item', and no parsed tag is empty or has whitespace around it.
C24_EveryRowHasCategoryAndTags ==
    Loaded =>
        \A n \in 1..Len(items_df[1].rows) :
            LET raw == datasets.items.table.rows[n]
                row == items_df[1].rows[n]
            IN  /\ raw.tags = None => row.tags = <<>>
                /\ \A i \in 1..Len(row.tags) : UsableTag(row.tags[i])
                /\ row.category # None
                /\ raw.category = None => row.category = Some("Item")

(***************************************************************************)
(* SpecBoot: the blueprint reco_bp over a datasets directory that may be   *)
(* unusable, with the metrics route and its cache (recommendations.py      *)
(* lines 12-23 and 146-160), one request after the other.  The clock       *)
(* advances between requests; a request takes no time on this clock.       *)
(* RecommendationEngine and evaluate_at_k are imported from                *)
(* models.recommendations and modelled from the specification.             *)
(***************************************************************************)
MaxBootRequests == 3
\* The clock advances MaxTicks times by TickSeconds.
MaxTicks == 5
TickSeconds == 30
\* (now - _LAST_EVAL) > 60, line 154
CacheSeconds == 60

\* RecommendationEngine(DATA_DIR): loads the datasets, and raises when the
\* loader does.
RecommendationEngine(ds) == load_reco_datasets(ds)

\* get_engine(), lines 19-23, for the datasets on disk: whether it raised, the
\* value of _ENGINE after it, the engine's matrix and how many engines it built.
get_engine(engine, df, ds) ==
    IF engine # None
    THEN [raised |-> FALSE, engine |-> engine, df |-> df, built |-> 0]
    ELSE LET r == RecommendationEngine(ds)
         IN  IF r.raised
             THEN [raised |-> TRUE, engine |-> None, df |-> df, built |-> 0]
             ELSE [raised |-> FALSE, engine |-> Some("engine"), df |-> r.interactions[1],
                   built |-> 1]

\* The first item of the user's row with a value > 0, in column order.
FirstPositive(df, user_id) ==
    df.columns[CHOOSE c \in 1..Len(df.columns) :
                  /\ At(df, user_id, df.columns[c]) > 0
                  /\ \A b \in 1..(c - 1) : At(df, user_id, df.columns[b]) <= 0]

\* One user of evaluate_at_k: hold the item out, rank, score the list.  (The
\* list is bound through a one-element set so that it is computed once.)
EvalUserAtK(df, user_id, k, strategy) ==
    LET item == FirstPositive(df, user_id)
    IN  CHOOSE r \in {[m |-> precision_recall_at_k({item}, pred, k),
                       map |-> average_precision_at_k({item}, pred, k)] :
                         pred \in {RecIds(EngineRank(SetAt(df, user_id, item, 0), user_id,
                                                     k, strategy, DefaultAlpha, None,
                                                     FALSE))}} : TRUE

\* evaluate_at_k(eng, k, strategy): the four metrics averaged over the users
\* with at least one positive interaction, in units of 1/RoundUnit.
evaluate_at_k(df, k, strategy) ==
    LET users == EligibleUsers(df, Len(df.index))
    IN  CHOOSE r \in
            {[precision |-> Round6(Avg([n \in 1..Len(users) |-> per[n].m.precision])),
              recall |-> Round6(Avg([n \in 1..Len(users) |-> per[n].m.recall])),
              f1 |-> Round6(Avg([n \in 1..Len(users) |-> per[n].m.f1])),
              map |-> Round6(Avg([n \in 1..Len(users) |-> per[n].map]))] :
                per \in {Computed([n \in 1..Len(users) |->
                                      EvalUserAtK(df, users[n], k, strategy)],
                                  Len(users))}} : TRUE

\* A cache that expires when 60 seconds have passed, not more than 60.
CacheExpiredAtSixty(t, last_eval) == t - last_eval >= CacheSeconds
\* (now - _LAST_EVAL) > 60
CacheExpired(t, last_eval) == t - last_eval > CacheSeconds

\* line 154: the condition under which the route evaluates
CacheMiss(result, last_eval, t) ==
    result = None \/ last_eval = None \/ CacheExpired(t, last_eval[1])

\* 'k': absent (5 is used), a number, or a value int() rejects
MetricsKs == {<<"absent", 0>>, <<"num", 1>>, <<"bad", 0>>}
DefaultK == 5
MetricsStrategies == {None, Some("CF")}
BootUserIds == {None, Some("u1"), Some("z")}
BootRatings == {<<"num", -10>>, <<"num", 10>>}

NoAnswer ==
    [route |-> "", status |-> 0, k |-> 0, strategy |-> "", metrics |-> None,
     evaluated |-> FALSE]

\* The datasets directories of SpecBoot: the shipped one, one without
\* items.csv, one whose interactions.csv does not parse, one whose items.csv
\* has no item_id column.
BootDatasets ==
    {ShippedDatasets,
     [ShippedDatasets EXCEPT !.items = BadFile("missing")],
     [ShippedDatasets EXCEPT !.interactions = BadFile("malformed")],
     [ShippedDatasets EXCEPT !.items.table.columns = {"title", "category", "tags"}]}

BootStep ==
    /\ nops < MaxBootRequests
    /\ nops' = nops + 1
    /\ UNCHANGED <<ev, acked, threads, datasets, items_df, now>>

\* POST /api/reco/recommend, lines 35-54
BootRecommend(user_id, top_n) ==
    /\ BootStep
    /\ LET req == [NoAnswer EXCEPT !.route = "recommend"]
           g == get_engine(_ENGINE, interactions_df, datasets)
       IN  IF Falsy(user_id)
           THEN /\ http' = [req EXCEPT !.status = 400]
                /\ UNCHANGED <<interactions_df, _ENGINE, engines>>
           ELSE IF g.raised
           THEN /\ http' = [req EXCEPT !.status = 500]
                /\ UNCHANGED <<interactions_df, _ENGINE, engines>>
           ELSE /\ _ENGINE' = g.engine
                /\ engines' = engines + g.built
                /\ interactions_df' = EngineRecommend(g.df, user_id[1], top_n).df
                /\ http' = [req EXCEPT !.status = 200]
    /\ UNCHANGED <<log_lines, last, model, ver, _LAST_EVAL, _LAST_EVAL_RESULT>>

\* POST /api/reco/feedback, lines 114-143
BootFeedback(user_id, item_id, rating, log_ok) ==
    /\ BootStep
    /\ LET req == [NoAnswer EXCEPT !.route = "feedback"]
           g == get_engine(_ENGINE, interactions_df, datasets)
       IN  IF Falsy(user_id) \/ Falsy(item_id) \/ rating[2] <= 0
           THEN /\ http' = [req EXCEPT !.status = 400]
                /\ UNCHANGED <<interactions_df, _ENGINE, engines, model, ver, log_lines>>
           ELSE IF g.raised
           THEN /\ http' = [req EXCEPT !.status = 500]
                /\ UNCHANGED <<interactions_df, _ENGINE, engines, model, ver, log_lines>>
           ELSE /\ _ENGINE' = g.engine
                /\ engines' = engines + g.built
                /\ interactions_df' = EngineFeedback(g.df, user_id[1], item_id[1], rating[2])
                /\ ver' = ver + 1
                /\ model' = Train(LoadData(model, ver + 1))
                /\ log_lines' = IF log_ok THEN log_lines + 1 ELSE log_lines
                /\ http' = [req EXCEPT !.status = IF log_ok THEN 200 ELSE 500]
    /\ UNCHANGED <<last, _LAST_EVAL, _LAST_EVAL_RESULT>>

\* GET /api/reco/model-info and /health, lines 26-32 and 103-111
BootModelInfo ==
    /\ BootStep
    /\ LET req == [NoAnswer EXCEPT !.route = "model-info"]
           g == get_engine(_ENGINE, interactions_df, datasets)
       IN  IF g.raised
           THEN /\ http' = [req EXCEPT !.status = 500]
                /\ UNCHANGED <<interactions_df, _ENGINE, engines>>
           ELSE /\ _ENGINE' = g.engine
                /\ engines' = engines + g.built
                /\ interactions_df' = g.df
                /\ http' = [req EXCEPT !.status = 200]
    /\ UNCHANGED <<log_lines, last, model, ver, _LAST_EVAL, _LAST_EVAL_RESULT>>

\* The number of evaluate_at_k calls that returned, kept in 'last'.
EvalCount(l) == IF l.op = "evaluate_at_k" THEN l.n ELSE 0

\* GET /api/reco/metrics, lines 146-160.  'last' keeps the last evaluate_at_k
\* call that returned: its clock value, its arguments and its result.
BootMetrics(k, strategy) ==
    /\ BootStep
    /\ LET kk == IF k[1] = "absent" THEN DefaultK ELSE k[2]
           strat == Lower(IF Falsy(strategy) THEN "hybrid" ELSE strategy[1])
           req == [NoAnswer EXCEPT !.route = "metrics", !.k = kk, !.strategy = strat]
           g == get_engine(_ENGINE, interactions_df, datasets)
       IN  IF k[1] = "bad"
           THEN \* int(request.args.get('k', 5)) raises: the except branch
                /\ http' = [req EXCEPT !.status = 500]
                /\ UNCHANGED <<interactions_df, _ENGINE, engines, last,
                               _LAST_EVAL, _LAST_EVAL_RESULT>>
           ELSE IF ~CacheMiss(_LAST_EVAL_RESULT, _LAST_EVAL, now)
           THEN /\ http' = [req EXCEPT !.status = 200, !.metrics = _LAST_EVAL_RESULT]
                /\ UNCHANGED <<interactions_df, _ENGINE, engines, last,
                               _LAST_EVAL, _LAST_EVAL_RESULT>>
           ELSE IF g.raised
           THEN /\ http' = [req EXCEPT !.status = 500]
                /\ UNCHANGED <<interactions_df, _ENGINE, engines, last,
                               _LAST_EVAL, _LAST_EVAL_RESULT>>
           ELSE \E result \in {evaluate_at_k(g.df, kk, strat)} :
                    /\ _ENGINE' = g.engine
                    /\ engines' = engines + g.built
                    /\ interactions_df' = g.df
                    /\ _LAST_EVAL_RESULT' = Some(result)
                    /\ _LAST_EVAL' = Some(now)
                    /\ last' = [op |-> "evaluate_at_k", n |-> EvalCount(last) + 1,
                                at |-> now, k |-> kk, strategy |-> strat, df |-> g.df,
                                result |-> result]
                    /\ http' = [req EXCEPT !.status = 200, !.metrics = Some(result),
                                           !.evaluated = TRUE]
    /\ UNCHANGED <<log_lines, model, ver>>

\* Time passes between two requests.
Tick ==
    /\ now < MaxTicks * TickSeconds
    /\ now' = now + TickSeconds
    /\ UNCHANGED <<interactions_df, log_lines, last, nops, ev, model, ver, acked, threads,
                   _ENGINE, http, datasets, items_df, _LAST_EVAL, _LAST_EVAL_RESULT, engines>>

InitBoot ==
    /\ interactions_df = EmptyFrame
    /\ log_lines = 0
    /\ last = NoCall
    /\ nops = 0
    /\ ev = NoEval
    /\ model = BuiltModel
    /\ ver = 0
    /\ acked = 0
    /\ threads = [t \in Threads |-> IdleThread]
    /\ _ENGINE = None
    /\ http = NoAnswer
    /\ datasets \in BootDatasets
    /\ items_df = None
    /\ _LAST_EVAL = None
    /\ _LAST_EVAL_RESULT = None
    /\ now = 0
    /\ engines = 0

NextBoot ==
    \/ \E user_id \in BootUserIds : BootRecommend(user_id, DefaultK)
    \/ \E user_id \in BootUserIds, rating \in BootRatings, log_ok \in BOOLEAN :
          BootFeedback(user_id, Some("B"), rating, log_ok)
    \/ BootModelInfo
    \/ \E k \in MetricsKs, strategy \in MetricsStrategies : BootMetrics(k, strategy)
    \/ Tick

SpecBoot == InitBoot /\ [][NextBoot]_vars

\* A metrics request is answered 200 in this step.
MetricsAnswers == nops' = nops + 1 /\ http'.route = "metrics" /\ http'.status = 200

\* C22: the metrics route runs evaluate_at_k only when no evaluation has
\* returned yet or more than 60 seconds have passed since the last one that
\* returned (counted from the clock value its request read); a request within
\* 60 seconds of it is answered with the result of that evaluation.
C22_EvaluatesOnlyAfterSixtySeconds ==
    [][MetricsAnswers =>
          /\ EvalCount(last') # EvalCount(last) =>
                (last.op # "evaluate_at_k" \/ now - last.at > CacheSeconds)
          /\ (last.op = "evaluate_at_k" /\ now - last.at <= CacheSeconds) =>
                (last' = last /\ http'.metrics = Some(last.result))]_vars

\* After a second evaluation, a request arriving exactly 60 seconds after it
\* has been answered from the cache.
C22_Witness ==
    /\ http.route = "metrics" /\ http.status = 200 /\ ~http.evaluated
    /\ EvalCount(last) = 2
    /\ now - last.at = CacheSeconds

\* The items or the interactions table is missing or malformed, or the items
\* table has no item_id column.
Unloadable(ds) ==
    \/ ds.items.status # "ok"
    \/ ds.interactions.status # "ok"
    \/ "item_id" \notin ds.items.table.columns

\* C23: with an unloadable datasets directory loading raises, no engine is
\* ever retained or built, and every recommend, feedback, model-info and
\* metrics request is answered with an error status.
C23_UnloadableNeverServes ==
    Unloadable(datasets) =>
        /\ load_reco_datasets(datasets).raised
        /\ _ENGINE = None
        /\ engines = 0
        /\ _LAST_EVAL_RESULT = None
        /\ http.route # "" => http.status >= 400

\* A metrics request on a directory whose items table has no item_id column
\* has been answered 500, after earlier requests.
C23_Witness ==
    /\ datasets.items.status = "ok" /\ datasets.interactions.status = "ok"
    /\ "item_id" \notin datasets.items.table.columns
    /\ nops >= 2
    /\ http.route = "metrics" /\ http.status = 500 /\ http.k = 1

\* C25: a successful metrics response labelled k and strategy carries the
\* values evaluate_at_k gives for that k and that strategy on the matrix it
\* was run on, whether freshly computed or served from the cache.
C25_LabelsMatchValues ==
    (http.route = "metrics" /\ http.status = 200) =>
        http.metrics = Some(evaluate_at_k(last.df, http.k, http.strategy))

(***************************************************************************)
(* SpecEngine: get_engine (recommendations.py lines 19-23) called by the   *)
(* handlers of two requests that the server runs in two threads.  A thread *)
(* can be preempted between the test of line 21, the constructor call and  *)
(* the store of line 22, and the read of line 23.                          *)
(***************************************************************************)
MaxEngineRequests == 3
EngineRoutes == {"model-info", "feedback"}

\* A handler: where it is, its route, the instance its constructor call
\* returned and the one get_engine returned to it.
IdleHandler == [pc |-> "idle", route |-> "", inst |-> None, eng |-> None]

NoUse == [op |-> "get_engine", used |-> {}]

EngineFrame == UNCHANGED <<interactions_df, log_lines, ev, model, ver, acked,
                           datasets, items_df, _LAST_EVAL, _LAST_EVAL_RESULT, now>>

\* A request for one of the routes reaches a free thread.
EngineRequest(t, route) ==
    /\ threads[t].pc = "idle"
    /\ nops < MaxEngineRequests
    /\ nops' = nops + 1
    /\ threads' = [threads EXCEPT ![t] = [IdleHandler EXCEPT !.pc = "check", !.route = route]]
    /\ UNCHANGED <<last, _ENGINE, http, engines>>
    /\ EngineFrame

\* line 21: if _ENGINE is None
EngineCheck(t) ==
    /\ threads[t].pc = "check"
    /\ threads' = [threads EXCEPT ![t].pc = IF _ENGINE = None THEN "construct" ELSE "return"]
    /\ UNCHANGED <<last, nops, _ENGINE, http, engines>>
    /\ EngineFrame

\* line 22, right-hand side: RecommendationEngine(DATA_DIR) builds an instance
EngineConstruct(t) ==
    /\ threads[t].pc = "construct"
    /\ engines' = engines + 1
    /\ threads' = [threads EXCEPT ![t].pc = "assign", ![t].inst = Some(engines + 1)]
    /\ UNCHANGED <<last, nops, _ENGINE, http>>
    /\ EngineFrame

\* line 22, the store: _ENGINE = <the new instance>
EngineAssign(t) ==
    /\ threads[t].pc = "assign"
    /\ _ENGINE' = threads[t].inst
    /\ threads' = [threads EXCEPT ![t].pc = "return"]
    /\ UNCHANGED <<last, nops, http, engines>>
    /\ EngineFrame

\* line 23: return _ENGINE
EngineReturn(t) ==
    /\ threads[t].pc = "return"
    /\ threads' = [threads EXCEPT ![t].pc = "use", ![t].eng = _ENGINE]
    /\ UNCHANGED <<last, nops, _ENGINE, http, engines>>
    /\ EngineFrame

\* The handler uses the instance it got and answers; 'last' keeps the
\* instances handlers have used so far.
EngineUse(t) ==
    /\ threads[t].pc = "use"
    /\ last' = [last EXCEPT !.used = @ \cup {threads[t].eng[1]}]
    /\ http' = [NoAnswer EXCEPT !.route = threads[t].route, !.status = 200]
    /\ threads' = [threads EXCEPT ![t] = IdleHandler]
    /\ UNCHANGED <<nops, _ENGINE, engines>>
    /\ EngineFrame

InitEngine ==
    /\ interactions_df = ShippedInteractions
    /\ log_lines = 0
    /\ last = NoUse
    /\ nops = 0
    /\ ev = NoEval
    /\ model = BuiltModel
    /\ ver = 0
    /\ acked = 0
    /\ threads = [t \in Threads |-> IdleHandler]
    /\ _ENGINE = None
    /\ http = NoAnswer
    /\ BootIdle

NextEngine ==
    \E t \in Threads :
        \/ \E route \in EngineRoutes : EngineRequest(t, route)
        \/ EngineCheck(t)
        \/ EngineConstruct(t)
        \/ EngineAssign(t)
        \/ EngineReturn(t)
        \/ EngineUse(t)

SpecEngine == InitEngine /\ [][NextEngine]_vars

\* C28: get_engine constructs at most one RecommendationEngine in the life of
\* the process and every handler uses that one instance, also when the first
\* requests arrive concurrently.
C28_OneEngineForAll ==
    /\ engines <= 1
    /\ Cardinality(last.used) <= 1

=============================================================================
